---- MODULE Spec2Model ----
(***************************************************************************)
(* Model of src/sim/lib/services/mcp-client.ts: the workflow activity      *)
(* store (nodes, connections, sessions, the active-session pointer and its *)
(* persistence) and the MCPClient (trace spans, listeners, executeTool).   *)
(*                                                                         *)
(* Record<string, X> objects are modelled as functions from ids to         *)
(* records; the sessions object and the traceSpans Map are modelled as     *)
(* sequences of records in insertion order, because clearSession reads     *)
(* Object.keys(...)[0] and getTraceSpans lists the Map's values.           *)
(* Ids issued by crypto.randomUUID() and uuidv4() are modelled by          *)
(* counters: an id is never issued twice.  Id 0 stands for a string that   *)
(* was never issued.  Dates are integers read from the clock `now`; ISO    *)
(* strings are distinct values (see the time values below).                *)
(*                                                                         *)
(* Several specifications drive the same program with different callers:   *)
(* SpecLifecycle (node calls with every argument), SpecClear (session,     *)
(* connection and clearing calls), SpecGraph (connections and selectors),  *)
(* SpecPersist (page reloads), SpecTrace (executeTool and its outcomes)    *)
(* and SpecNotify (listeners).                                             *)
(***************************************************************************)
EXTENDS Integers, Sequences, FiniteSets, TLC

\* ---------------------------------------------------------------- bounds
MaxNodes == 2
MaxConns == 1
MaxSessions == 2
MaxTime == 1
\* Connections made in SpecGraph.
MaxGraphConns == 2
\* The clock of SpecTrace, and the callbacks passed to addListener in it.
MaxTraceTime == 2
MaxListeners == 2
MaxSends == 2

\* ------------------------------------------------------------ value sets
\* An unset optional field (endTime?: Date, activeSessionId?: string).
Undefined == -1
\* An unset payload (result?: any, error?: string).
NoPayload == "undefined"

ActivityNodeStatus == {"idle", "running", "completed", "error", "warning"}
\* Values a caller passes as completeNode's optional result.
ResultArgs == {NoPayload, "result"}
\* Values a caller passes as failNode's error message.
ErrorArgs == {"boom"}

\* ------------------------------------------------------------ time values
\* A Date is the integer number of milliseconds it holds (>= 0).  An ISO
\* string, as Date.prototype.toISOString() and JSON.stringify produce it,
\* is an integer below Undefined, so that a Date and the string that
\* spells it are different values.
IsDate(x) == x >= 0
IsString(x) == x < Undefined

\* date.toISOString()
toISOString(t) == Undefined - 1 - t

\* new Date(isoString).getTime()
getTime(x) == IF IsString(x) THEN Undefined - 1 - x ELSE x

\* a >= b as JavaScript evaluates it: two Dates compare as numbers, two ISO
\* strings compare as strings (for ISO strings, by instant), and a Date
\* against a string is a number against NaN, which is false; so is any
\* comparison with undefined.
JsGte(a, b) ==
  IF IsDate(a) /\ IsDate(b) THEN a >= b
  ELSE IF IsString(a) /\ IsString(b) THEN getTime(a) >= getTime(b)
  ELSE FALSE

\* a <= b as JavaScript evaluates it.
JsLte(a, b) == JsGte(b, a)

VARIABLES
  nodes,            \* state.nodes: node id -> ActivityNode
  connections,      \* state.connections: connection id -> ActivityConnection
  sessions,         \* state.sessions, in key insertion order
  activeSessionId,  \* state.activeSessionId
  now,              \* the clock read by new Date()
  nextNode,         \* ids issued so far by createNode are 1..nextNode-1
  nextConn,         \* ids issued so far by connectNodes
  nextSession,      \* ids issued so far by createSession
  last              \* the last store call: its name, its arguments, what
                    \* it addressed as that was before the call, and the
                    \* node ids it removed

\* The MCPClient singleton and the executeTool calls in flight.
VARIABLES
  traceSpans,       \* MCPClient.traceSpans: the Map's entries, in insertion order
  listeners,        \* MCPClient.listeners: the array of callbacks
  nextListener,     \* callbacks passed to addListener so far
  calls,            \* executeTool invocations: call id -> its locals
  notified          \* the listener calls made by the last notifyListeners()

\* The client code around them: the useMCPActivity hook and the chat store.
VARIABLES
  rendered,         \* useMCPActivity: activeSessionId as the last render read it
  isProcessing,     \* useChatStore: isProcessing
  sends             \* sendMessage invocations: call id -> its locals

appVars == <<rendered, isProcessing, sends>>

clientVars == <<traceSpans, listeners, nextListener, calls, notified, appVars>>

vars == <<nodes, connections, sessions, activeSessionId, now,
          nextNode, nextConn, nextSession, last, clientVars>>

\* The MCPClient after construction: no span, no listener, no call made.
ClientInit ==
  /\ traceSpans = <<>>
  /\ listeners = <<>>
  /\ nextListener = 1
  /\ calls = <<>>
  /\ notified = <<>>
  /\ rendered = Undefined
  /\ isProcessing = FALSE
  /\ sends = <<>>

Called(op, id, arg, was) ==
  [op |-> op, id |-> id, arg |-> arg, was |-> was, removed |-> {}]

\* A clearing call also records the ids of the nodes it removed.
CalledClear(op, id, arg, was, removed) ==
  [op |-> op, id |-> id, arg |-> arg, was |-> was, removed |-> removed]

\* What a node call addressed: the node's status before the call.
NodeWas(nodeId) ==
  IF nodeId \in DOMAIN nodes THEN nodes[nodeId].status ELSE "missing"

\* ------------------------------------------------------- object helpers
\* Object.keys(sessions)
ObjectKeys(S) == [i \in 1..Len(S) |-> S[i].id]

KeySet(S) == {S[i].id : i \in 1..Len(S)}

\* sessions[sessionId], for a key that is present
Lookup(S, sessionId) == S[CHOOSE i \in 1..Len(S) : S[i].id = sessionId]

\* delete sessions[sessionId]
DeleteKey(S, sessionId) == SelectSeq(S, LAMBDA s : s.id # sessionId)

\* { ...sessions, [id]: session }: an existing key keeps its place, a new
\* key goes last.
Spread(S, session) ==
  IF session.id \in KeySet(S)
    THEN [i \in 1..Len(S) |-> IF S[i].id = session.id THEN session ELSE S[i]]
    ELSE Append(S, session)

\* What a session call addressed.
SessionWas(sessionId) ==
  IF sessionId \in KeySet(sessions) THEN "present" ELSE "missing"

\* Ids a caller can hold: every id issued so far (the entity may have been
\* removed since) and 0, a string that was never issued.
NodeIdArgs == 0..(nextNode - 1)
SessionIdArgs == 0..(nextSession - 1)

\* ------------------------------------------------------------------ Init
Init ==
  /\ nodes = <<>>
  /\ connections = <<>>
  /\ sessions = <<>>
  /\ activeSessionId = Undefined
  /\ now = 0
  /\ nextNode = 1
  /\ nextConn = 1
  /\ nextSession = 1
  /\ last = Called("init", Undefined, NoPayload, "missing")
  /\ ClientInit

\* Time passes between two calls, up to a limit.
Pass(limit) ==
  /\ now < limit
  /\ now' = now + 1
  /\ UNCHANGED <<nodes, connections, sessions, activeSessionId,
                 nextNode, nextConn, nextSession, last>>
  /\ UNCHANGED clientVars

Tick == Pass(MaxTime)

\* ------------------------------------------------------------- sessions
\* The session createSession builds at time t.
newSession(id, t) == [id |-> id, startTime |-> t, endTime |-> Undefined]

\* Mutant of createSessionSet: creating a session ends the sessions that
\* are still open.
createSessionSet_EndsOthers(S, id, t) ==
  Spread([i \in 1..Len(S) |->
            [S[i] EXCEPT !.endTime = IF @ = Undefined THEN t ELSE @]],
         newSession(id, t))

\* The set() callback of createSession: the new state.sessions.
createSessionSet(S, id, t) == Spread(S, newSession(id, t))

createSession ==
  /\ nextSession <= MaxSessions
  /\ LET id == nextSession
     IN /\ sessions' = createSessionSet(sessions, id, now)
        /\ activeSessionId' = id
        /\ last' = Called("createSession", id, NoPayload, "missing")
  /\ nextSession' = nextSession + 1
  /\ UNCHANGED <<nodes, connections, now, nextNode, nextConn>>
  /\ UNCHANGED clientVars

\* Mutant of endSessionResult: the missing-session guard is dropped, so the
\* spread of an absent session creates a record that holds only endTime.
endSessionResult_Unguarded(S, sessionId, t) ==
  IF sessionId \notin KeySet(S)
    THEN Append(S, [id |-> sessionId, startTime |-> Undefined, endTime |-> t])
    ELSE Spread(S, [Lookup(S, sessionId) EXCEPT !.endTime = t])

endSessionResult(S, sessionId, t) ==
  IF sessionId \notin KeySet(S)
    THEN S
    ELSE Spread(S, [Lookup(S, sessionId) EXCEPT !.endTime = t])

endSession(sessionId) ==
  /\ sessions' = endSessionResult(sessions, sessionId, now)
  /\ last' = Called("endSession", sessionId, NoPayload, SessionWas(sessionId))
  /\ UNCHANGED <<nodes, connections, activeSessionId, now,
                 nextNode, nextConn, nextSession>>
  /\ UNCHANGED clientVars

setActiveSession(sessionId) ==
  /\ activeSessionId' = sessionId
  /\ last' = Called("setActiveSession", sessionId, NoPayload,
                   SessionWas(sessionId))
  /\ UNCHANGED <<nodes, connections, sessions, now,
                 nextNode, nextConn, nextSession>>
  /\ UNCHANGED clientVars

\* ---------------------------------------------------------------- nodes
\* Mutant of newNode: endTime initialised to the creation time, as the
\* trace span's endTime is.
newNode_EndTimeSet(t) ==
  [status |-> "idle", startTime |-> t, endTime |-> t,
   result |-> NoPayload, error |-> NoPayload]

\* The node createNode builds at time t.
newNode(t) ==
  [status |-> "idle", startTime |-> t, endTime |-> Undefined,
   result |-> NoPayload, error |-> NoPayload]

\* The set() callback of createNode: the new state.nodes.
createNodeSet(N, id, t) ==
  [n \in DOMAIN N \cup {id} |-> IF n = id THEN newNode(t) ELSE N[n]]

createNode ==
  /\ nextNode <= MaxNodes
  /\ LET id == nextNode
     IN /\ nodes' = createNodeSet(nodes, id, now)
        /\ last' = Called("createNode", id, NoPayload, "missing")
  /\ nextNode' = nextNode + 1
  /\ UNCHANGED <<connections, sessions, activeSessionId, now,
                 nextConn, nextSession>>
  /\ UNCHANGED clientVars

\* Mutant of updateNodeStatusSet: the missing-node guard is dropped, so the
\* spread of an absent node creates an entry that holds only the status.
updateNodeStatusSet_Unguarded(N, nodeId, status) ==
  [n \in DOMAIN N \cup {nodeId} |->
     IF n # nodeId THEN N[n]
     ELSE IF n \in DOMAIN N THEN [N[n] EXCEPT !.status = status]
     ELSE [status |-> status, startTime |-> Undefined, endTime |-> Undefined,
           result |-> NoPayload, error |-> NoPayload]]

\* The set() callback of updateNodeStatus: the new state.nodes.
updateNodeStatusSet(N, nodeId, status) ==
  IF nodeId \notin DOMAIN N
    THEN N
    ELSE [N EXCEPT ![nodeId] = [@ EXCEPT !.status = status]]

updateNodeStatus(nodeId, status) ==
  /\ nodes' = updateNodeStatusSet(nodes, nodeId, status)
  /\ last' = Called("updateNodeStatus", nodeId, status, NodeWas(nodeId))
  /\ UNCHANGED <<connections, sessions, activeSessionId, now,
                 nextNode, nextConn, nextSession>>
  /\ UNCHANGED clientVars

\* Mutant of completeNodeSet: the status is not set.
completeNodeSet_KeepsStatus(N, nodeId, result, t) ==
  IF nodeId \notin DOMAIN N
    THEN N
    ELSE [N EXCEPT ![nodeId] = [@ EXCEPT !.endTime = t, !.result = result]]

\* Mutant of completeNodeSet: completing clears the error.
completeNodeSet_ClearsError(N, nodeId, result, t) ==
  IF nodeId \notin DOMAIN N
    THEN N
    ELSE [N EXCEPT ![nodeId] =
            [@ EXCEPT !.status = "completed", !.endTime = t,
                      !.result = result, !.error = NoPayload]]

\* The set() callback of completeNode.
completeNodeSet(N, nodeId, result, t) ==
  IF nodeId \notin DOMAIN N
    THEN N
    ELSE [N EXCEPT ![nodeId] =
            [@ EXCEPT !.status = "completed", !.endTime = t, !.result = result]]

completeNode(nodeId, result) ==
  /\ nodes' = completeNodeSet(nodes, nodeId, result, now)
  /\ last' = Called("completeNode", nodeId, result, NodeWas(nodeId))
  /\ UNCHANGED <<connections, sessions, activeSessionId, now,
                 nextNode, nextConn, nextSession>>
  /\ UNCHANGED clientVars

\* Mutant of failNodeSet: failing clears the result.
failNodeSet_ClearsResult(N, nodeId, error, t) ==
  IF nodeId \notin DOMAIN N
    THEN N
    ELSE [N EXCEPT ![nodeId] =
            [@ EXCEPT !.status = "error", !.endTime = t,
                      !.error = error, !.result = NoPayload]]

\* Mutant of failNodeSet: endTime is not stamped.
failNodeSet_NoEndTime(N, nodeId, error, t) ==
  IF nodeId \notin DOMAIN N
    THEN N
    ELSE [N EXCEPT ![nodeId] = [@ EXCEPT !.status = "error", !.error = error]]

\* The set() callback of failNode.
failNodeSet(N, nodeId, error, t) ==
  IF nodeId \notin DOMAIN N
    THEN N
    ELSE [N EXCEPT ![nodeId] =
            [@ EXCEPT !.status = "error", !.endTime = t, !.error = error]]

failNode(nodeId, error) ==
  /\ nodes' = failNodeSet(nodes, nodeId, error, now)
  /\ last' = Called("failNode", nodeId, error, NodeWas(nodeId))
  /\ UNCHANGED <<connections, sessions, activeSessionId, now,
                 nextNode, nextConn, nextSession>>
  /\ UNCHANGED clientVars

\* ---------------------------------------------------------- connections
\* Mutant of connectNodesSet: a pair that is already connected is not
\* connected again.
connectNodesSet_Dedup(C, id, sourceId, targetId) ==
  IF \E c \in DOMAIN C : C[c].sourceId = sourceId /\ C[c].targetId = targetId
    THEN C
    ELSE [c \in DOMAIN C \cup {id} |->
            IF c = id THEN [sourceId |-> sourceId, targetId |-> targetId]
            ELSE C[c]]

\* The set() callback of connectNodes: the new state.connections.
connectNodesSet(C, id, sourceId, targetId) ==
  [c \in DOMAIN C \cup {id} |->
     IF c = id THEN [sourceId |-> sourceId, targetId |-> targetId]
     ELSE C[c]]

\* The callers below stop at a bound on the connection ids issued.
connectNodes(sourceId, targetId) ==
  /\ LET id == nextConn
     IN /\ connections' = connectNodesSet(connections, id, sourceId, targetId)
        /\ last' = Called("connectNodes", id, NoPayload, "missing")
  /\ nextConn' = nextConn + 1
  /\ UNCHANGED <<nodes, sessions, activeSessionId, now, nextNode, nextSession>>
  /\ UNCHANGED clientVars

\* ------------------------------------------------------------- clearing
\* The membership filter of clearSession (its sessionNodes).
clearSessionNodeIds(N, S, sessionId) ==
  {n \in DOMAIN N :
     /\ sessionId \in KeySet(S)
     /\ JsGte(N[n].startTime, Lookup(S, sessionId).startTime)
     /\ \/ Lookup(S, sessionId).endTime = Undefined
        \/ N[n].endTime = Undefined
        \/ JsLte(N[n].endTime, Lookup(S, sessionId).endTime)}

remainingNodes(N, sessionNodeIds) ==
  [n \in DOMAIN N \ sessionNodeIds |-> N[n]]

\* Mutant of remainingConnections: a connection is dropped only when both
\* of its ends were removed, the test getSessionConnections uses.
remainingConnections_BothEnds(C, sessionNodeIds) ==
  [c \in {k \in DOMAIN C : \/ C[k].sourceId \notin sessionNodeIds
                           \/ C[k].targetId \notin sessionNodeIds} |-> C[c]]

remainingConnections(C, sessionNodeIds) ==
  [c \in {k \in DOMAIN C : /\ C[k].sourceId \notin sessionNodeIds
                           /\ C[k].targetId \notin sessionNodeIds} |-> C[c]]

\* Object.keys(remainingSessions)[0], undefined for an empty object
FirstKey(S) == IF Len(S) = 0 THEN Undefined ELSE ObjectKeys(S)[1]

\* Mutant of clearSessionActive: the first key is read from the sessions
\* before the delete.
clearSessionActive_BeforeDelete(active, S, sessionId) ==
  IF active = sessionId THEN FirstKey(S) ELSE active

\* Mutant of clearSessionActive: the pointer is left as it was.
clearSessionActive_Kept(active, S, sessionId) == active

clearSessionActive(active, S, sessionId) ==
  IF active = sessionId THEN FirstKey(DeleteKey(S, sessionId)) ELSE active

clearSession(sessionId) ==
  /\ LET sessionNodeIds == clearSessionNodeIds(nodes, sessions, sessionId)
     IN /\ nodes' = remainingNodes(nodes, sessionNodeIds)
        /\ connections' = remainingConnections(connections, sessionNodeIds)
  /\ sessions' = DeleteKey(sessions, sessionId)
  /\ activeSessionId' = clearSessionActive(activeSessionId, sessions, sessionId)
  /\ last' = CalledClear("clearSession", sessionId,
                        IF activeSessionId = sessionId
                          THEN "active" ELSE "inactive",
                        SessionWas(sessionId),
                        DOMAIN nodes \ DOMAIN nodes')
  /\ UNCHANGED <<now, nextNode, nextConn, nextSession>>
  /\ UNCHANGED clientVars

StoreIsEmpty ==
  /\ DOMAIN nodes = {}
  /\ DOMAIN connections = {}
  /\ Len(sessions) = 0
  /\ activeSessionId = Undefined

\* Mutant of clearAllState: the active-session pointer is left out of the
\* partial state, so set() keeps it.
clearAllState_KeepsActive ==
  [nodes |-> <<>>, connections |-> <<>>, sessions |-> <<>>,
   activeSessionId |-> activeSessionId]

\* The partial state clearAll hands to set().
clearAllState ==
  [nodes |-> <<>>, connections |-> <<>>, sessions |-> <<>>,
   activeSessionId |-> Undefined]

clearAll ==
  /\ nodes' = clearAllState.nodes
  /\ connections' = clearAllState.connections
  /\ sessions' = clearAllState.sessions
  /\ activeSessionId' = clearAllState.activeSessionId
  /\ last' = CalledClear("clearAll", Undefined, NoPayload,
                        IF StoreIsEmpty THEN "missing" ELSE "present",
                        DOMAIN nodes \ DOMAIN nodes')
  /\ UNCHANGED <<now, nextNode, nextConn, nextSession>>
  /\ UNCHANGED clientVars

\* ------------------------------------------------------------ selectors
getSessionNodes(sessionId) ==
  IF sessionId \notin KeySet(sessions)
    THEN {}
    ELSE LET session == Lookup(sessions, sessionId)
         IN {n \in DOMAIN nodes :
               /\ JsGte(nodes[n].startTime, session.startTime)
               /\ \/ session.endTime = Undefined
                  \/ nodes[n].endTime = Undefined
                  \/ JsLte(nodes[n].endTime, session.endTime)}

\* Mutant of getSessionConnections: one end among the session's nodes is
\* enough, the test clearSession uses.
getSessionConnections_EitherEnd(sessionId) ==
  LET sessionNodeIds == getSessionNodes(sessionId)
  IN {c \in DOMAIN connections :
        \/ connections[c].sourceId \in sessionNodeIds
        \/ connections[c].targetId \in sessionNodeIds}

getSessionConnections(sessionId) ==
  LET sessionNodeIds == getSessionNodes(sessionId)
  IN {c \in DOMAIN connections :
        /\ connections[c].sourceId \in sessionNodeIds
        /\ connections[c].targetId \in sessionNodeIds}

\* ---------------------------------------------------------- persistence
\* The state the persist middleware is handed.
StoreState ==
  [nodes |-> nodes, connections |-> connections, sessions |-> sessions,
   activeSessionId |-> activeSessionId]

\* The state the store is created with.
InitialState ==
  [nodes |-> <<>>, connections |-> <<>>, sessions |-> <<>>,
   activeSessionId |-> Undefined]

\* Mutant of partialize: the active-session pointer is persisted too.
partialize_KeepsActive(state) ==
  [sessions |-> SelectSeq(state.sessions, LAMBDA s : s.endTime # Undefined),
   activeSessionId |-> state.activeSessionId]

\* partialize: only the sessions whose endTime is truthy are persisted, in
\* their key order.
partialize(state) ==
  [sessions |-> SelectSeq(state.sessions, LAMBDA s : s.endTime # Undefined)]

\* JSON.parse(JSON.stringify(v)) of a time field: a Date is written by its
\* toJSON() as an ISO string and is read back as that string; a string and
\* an id are read back as they were.
JsonTime(x) == IF IsDate(x) THEN toISOString(x) ELSE x

\* JSON.parse(JSON.stringify(persisted)): what the next process reads from
\* storage.
JsonRoundTrip(persisted) ==
  [k \in DOMAIN persisted |->
     IF k = "sessions"
       THEN [i \in 1..Len(persisted[k]) |->
               [persisted[k][i] EXCEPT !.startTime = JsonTime(@),
                                       !.endTime = JsonTime(@)]]
       ELSE persisted[k]]

\* The persist middleware's merge on hydration: { ...current, ...persisted }.
Merge(current, persisted) ==
  [k \in DOMAIN current |->
     IF k \in DOMAIN persisted THEN persisted[k] ELSE current[k]]

\* The page is reloaded: a new process creates the store and the client,
\* and the store is hydrated from what the old process last persisted,
\* which is partialize of its last state (storage is written on every
\* set()).  Ids are UUIDs, so the new process issues none of the old ones.
Reload ==
  /\ LET hydrated == Merge(InitialState,
                           JsonRoundTrip(partialize(StoreState)))
     IN /\ nodes' = hydrated.nodes
        /\ connections' = hydrated.connections
        /\ sessions' = hydrated.sessions
        /\ activeSessionId' = hydrated.activeSessionId
  /\ last' = CalledClear("reload", activeSessionId, NoPayload,
                        IF DOMAIN connections # {}
                          THEN "present" ELSE "missing",
                        DOMAIN nodes)
  /\ traceSpans' = <<>>
  /\ listeners' = <<>>
  /\ calls' = <<>>
  /\ notified' = <<>>
  /\ rendered' = Undefined
  /\ isProcessing' = FALSE
  /\ sends' = <<>>
  /\ UNCHANGED <<now, nextNode, nextConn, nextSession, nextListener>>

\* ------------------------------------------------------------ MCPClient
\* An unset span.error / response.error.
NoError == [message |-> NoPayload, code |-> NoPayload]
\* The value of a call that has not returned yet.
NoResponse == [status |-> "pending", error |-> NoError]

\* What the awaited fetch can raise: a rejection of fetch itself, and the
\* Error executeTool throws for a response that is not ok.
Raised == {"Failed to fetch", "MCP API error"}

\* error instanceof Error ? error.message : 'Unknown error', for the Errors
\* in Raised.
errorMessageOf(raised) == raised

\* The error object of a response body with status 'error'.
BodyError == [message |-> "Unsupported MCP tool", code |-> "UNSUPPORTED_TOOL"]

\* A response body of the API route: the server stamps its own start and
\* end and their difference.
Body(status, serverStart, serverEnd) ==
  [status |-> status,
   result |-> IF status = "success" THEN "result" ELSE NoPayload,
   error |-> IF status = "error" THEN BodyError ELSE NoError,
   endTime |-> toISOString(serverEnd),
   duration |-> serverEnd - serverStart]

\* A response body with status 'error' and no error object: the error
\* field of MCPToolResponse is optional.
BodyWithoutError(serverStart, serverEnd) ==
  [Body("error", serverStart, serverEnd) EXCEPT !.error = NoError]

\* this.traceSpans.set(span.id, span): a key that is present keeps its
\* place, a new key goes last.
MapSet(M, span) ==
  IF \E i \in 1..Len(M) : M[i].id = span.id
    THEN [i \in 1..Len(M) |-> IF M[i].id = span.id THEN span ELSE M[i]]
    ELSE Append(M, span)

\* getTraceSpans(): Array.from(this.traceSpans.values())
getTraceSpans(M) == M

\* Mutant of notifyListenersCalls: a listener whose unsubscribe function an
\* earlier listener has run is skipped.
notifyListenersCalls_SkipsUnsubscribed(L, spans) ==
  LET called == {i \in 1..Len(L) :
                   \A k \in 1..(i - 1) : L[k].unsubscribes # L[i].callback}
      Pick[i \in 0..Len(L)] ==
        IF i = 0 THEN <<>>
        ELSE IF i \in called
          THEN Append(Pick[i - 1], [listener |-> L[i].callback, spans |-> spans])
          ELSE Pick[i - 1]
  IN Pick[Len(L)]

\* Mutant of notifyListenersCalls: the try/catch around the call is
\* dropped, so the exception of a listener ends the forEach.
notifyListenersCalls_Uncaught(L, spans) ==
  LET reached == {i \in 1..Len(L) : \A k \in 1..(i - 1) : ~L[k].throws}
  IN [i \in reached |-> [listener |-> L[i].callback, spans |-> spans]]

\* notifyListeners(): forEach runs over the array this.listeners held when
\* it began, so every listener in it is called once, in order, with the
\* same spans array; what a listener throws is caught and logged.
notifyListenersCalls(L, spans) ==
  [i \in 1..Len(L) |-> [listener |-> L[i].callback, spans |-> spans]]

\* this.listeners after notifyListeners(): a listener that runs an
\* unsubscribe function when it is called has replaced this.listeners by
\* the filtered array.
notifyListenersLeft(L) ==
  SelectSeq(L, LAMBDA l : \A i \in 1..Len(L) : L[i].unsubscribes # l.callback)

\* addListener(callback).  The callback is a new function; when it is
\* called it runs the unsubscribe function of the callback `unsubscribes`
\* (its own, another listener's, or none for Undefined), if that function
\* exists by then, and then throws if `throws`.
addListener(unsubscribes, throws) ==
  /\ nextListener <= MaxListeners
  /\ listeners' = Append(listeners, [callback |-> nextListener,
                                     unsubscribes |-> unsubscribes,
                                     throws |-> throws])
  /\ nextListener' = nextListener + 1
  /\ last' = Called("addListener", nextListener, NoPayload, "missing")
  /\ UNCHANGED <<nodes, connections, sessions, activeSessionId, now,
                 nextNode, nextConn, nextSession>>
  /\ UNCHANGED <<traceSpans, calls, notified, appVars>>

\* The function addListener returned for `callback` is run.
unsubscribe(callback) ==
  /\ listeners' = SelectSeq(listeners, LAMBDA l : l.callback # callback)
  /\ last' = Called("unsubscribe", callback, NoPayload,
                   IF \E i \in 1..Len(listeners) :
                        listeners[i].callback = callback
                     THEN "present" ELSE "missing")
  /\ UNCHANGED <<nodes, connections, sessions, activeSessionId, now,
                 nextNode, nextConn, nextSession>>
  /\ UNCHANGED <<traceSpans, nextListener, calls, notified, appVars>>

clearTraceSpans ==
  /\ traceSpans' = <<>>
  /\ notified' = notifyListenersCalls(listeners, getTraceSpans(traceSpans'))
  /\ listeners' = notifyListenersLeft(listeners)
  /\ last' = Called("clearTraceSpans", Undefined, NoPayload,
                   IF Len(traceSpans) > 0 THEN "present" ELSE "missing")
  /\ UNCHANGED <<nodes, connections, sessions, activeSessionId, now,
                 nextNode, nextConn, nextSession>>
  /\ UNCHANGED <<nextListener, calls, appVars>>

\* The span executeTool initialises.
newSpan(requestId, startTime, activityNodeId) ==
  [id |-> requestId, startTime |-> startTime, endTime |-> startTime,
   duration |-> 0, status |-> "pending", result |-> NoPayload,
   error |-> NoError, activityNodeId |-> activityNodeId]

\* executeTool up to its await: the session is ensured, the node is created
\* and set running and connected to the parent if one is passed, the span
\* is registered and the listeners are notified.
executeTool(parentNodeId) ==
  /\ nextNode <= MaxNodes
  /\ LET requestId == Len(calls) + 1
         startTime == toISOString(now)
         activityNodeId == nextNode
         span == newSpan(requestId, startTime, activityNodeId)
     IN /\ IF activeSessionId = Undefined
             THEN /\ sessions' = createSessionSet(sessions, nextSession, now)
                  /\ activeSessionId' = nextSession
                  /\ nextSession' = nextSession + 1
             ELSE UNCHANGED <<sessions, activeSessionId, nextSession>>
        /\ nodes' = updateNodeStatusSet(
                      createNodeSet(nodes, activityNodeId, now),
                      activityNodeId, "running")
        /\ nextNode' = nextNode + 1
        /\ IF parentNodeId # Undefined
             THEN /\ connections' = connectNodesSet(connections, nextConn,
                                                    parentNodeId, activityNodeId)
                  /\ nextConn' = nextConn + 1
             ELSE UNCHANGED <<connections, nextConn>>
        /\ traceSpans' = MapSet(traceSpans, span)
        /\ notified' = notifyListenersCalls(listeners, getTraceSpans(traceSpans'))
        /\ listeners' = notifyListenersLeft(listeners)
        /\ calls' = Append(calls, [pc |-> "fetch", span |-> span,
                                   response |-> NoResponse])
        /\ last' = Called("executeTool", requestId, NoPayload, "missing")
  /\ UNCHANGED <<now, nextListener, appVars>>

\* The span after the try block has read the body: result.timing.endTime
\* and result.timing.duration are taken when they are truthy.
trySpan(span, body, endTime) ==
  LET spanEnd == IF body.endTime # Undefined THEN body.endTime ELSE endTime
  IN [span EXCEPT !.endTime = spanEnd,
                  !.duration = IF body.duration # 0
                                 THEN body.duration
                                 ELSE getTime(spanEnd) - getTime(span.startTime),
                  !.status = body.status,
                  !.result = IF body.status = "success"
                               THEN body.result ELSE @,
                  !.error = IF body.status = "error" /\ body.error # NoError
                              THEN body.error ELSE @]

\* The store's nodes after the try block has read the body.
tryNodes(N, activityNodeId, body, t) ==
  IF body.status = "success"
    THEN completeNodeSet(N, activityNodeId, body.result, t)
    ELSE IF body.status = "error" /\ body.error # NoError
      THEN failNodeSet(N, activityNodeId, body.error.message, t)
      ELSE N

\* executeTool after its await, when the response is ok and its body is
\* read: the rest of the try block.
executeToolTry(requestId, body) ==
  /\ requestId \in DOMAIN calls
  /\ calls[requestId].pc = "fetch"
  /\ LET span == trySpan(calls[requestId].span, body, toISOString(now))
     IN /\ nodes' = tryNodes(nodes, span.activityNodeId, body, now)
        /\ traceSpans' = MapSet(traceSpans, span)
        /\ notified' = notifyListenersCalls(listeners, getTraceSpans(traceSpans'))
        /\ listeners' = notifyListenersLeft(listeners)
        /\ calls' = [calls EXCEPT ![requestId] =
                       [pc |-> "resolved", span |-> span,
                        response |-> [status |-> body.status,
                                      error |-> body.error]]]
        /\ last' = Called("executeToolTry", requestId, body.status,
                         NodeWas(span.activityNodeId))
  /\ UNCHANGED <<connections, sessions, activeSessionId, now,
                 nextNode, nextConn, nextSession, nextListener, appVars>>

\* Mutant of catchSpan: the status is left as it was.
catchSpan_KeepsStatus(span, errorMessage, endTime) ==
  [span EXCEPT !.endTime = endTime,
               !.duration = getTime(endTime) - getTime(span.startTime),
               !.error = [message |-> errorMessage, code |-> "EXECUTION_ERROR"]]

\* The span after the catch block.
catchSpan(span, errorMessage, endTime) ==
  [span EXCEPT !.endTime = endTime,
               !.duration = getTime(endTime) - getTime(span.startTime),
               !.status = "error",
               !.error = [message |-> errorMessage, code |-> "EXECUTION_ERROR"]]

\* executeTool after its await, when fetch rejected or the response was not
\* ok: the catch block.
executeToolCatch(requestId, raised) ==
  /\ requestId \in DOMAIN calls
  /\ calls[requestId].pc = "fetch"
  /\ LET errorMessage == errorMessageOf(raised)
         span == catchSpan(calls[requestId].span, errorMessage,
                           toISOString(now))
     IN /\ nodes' = failNodeSet(nodes, span.activityNodeId, errorMessage, now)
        /\ traceSpans' = MapSet(traceSpans, span)
        /\ notified' = notifyListenersCalls(listeners, getTraceSpans(traceSpans'))
        /\ listeners' = notifyListenersLeft(listeners)
        /\ calls' = [calls EXCEPT ![requestId] =
                       [pc |-> "resolved", span |-> span,
                        response |-> [status |-> "error",
                                      error |-> [message |-> errorMessage,
                                                 code |-> "EXECUTION_ERROR"]]]]
        /\ last' = Called("executeToolCatch", requestId, raised,
                         NodeWas(span.activityNodeId))
  /\ UNCHANGED <<connections, sessions, activeSessionId, now,
                 nextNode, nextConn, nextSession, nextListener, appVars>>

\* ------------------------------------------------------- useMCPActivity
\* A render of a component that uses the hook: useWorkflowActivityStore()
\* returns the store's state of that moment, which the closures of this
\* render keep, and the first effect creates a session when none is active
\* in that state and autoCreateSession is set.  The chat has no message.
useMCPActivity(autoCreateSession) ==
  /\ rendered' = activeSessionId
  /\ IF autoCreateSession /\ activeSessionId = Undefined
       THEN /\ nextSession <= MaxSessions
            /\ sessions' = createSessionSet(sessions, nextSession, now)
            /\ activeSessionId' = nextSession
            /\ nextSession' = nextSession + 1
       ELSE UNCHANGED <<sessions, activeSessionId, nextSession>>
  /\ last' = Called("useMCPActivity", Undefined, NoPayload,
                   IF activeSessionId = Undefined THEN "missing" ELSE "present")
  /\ UNCHANGED <<nodes, connections, now, nextNode, nextConn>>
  /\ UNCHANGED <<traceSpans, listeners, nextListener, calls, notified,
                 isProcessing, sends>>

\* trackToolStart of the last render: activeSessionId is read from the
\* state that render got, createSession, createNode and updateNodeStatus
\* act on the store.  The call returns the node's id.
trackToolStart ==
  /\ nextNode <= MaxNodes
  /\ LET nodeId == nextNode
     IN /\ IF rendered = Undefined
             THEN /\ sessions' = createSessionSet(sessions, nextSession, now)
                  /\ activeSessionId' = nextSession
                  /\ nextSession' = nextSession + 1
             ELSE UNCHANGED <<sessions, activeSessionId, nextSession>>
        /\ nodes' = updateNodeStatusSet(createNodeSet(nodes, nodeId, now),
                                        nodeId, "running")
        /\ last' = Called("trackToolStart", nodeId, NoPayload,
                         IF activeSessionId = Undefined
                           THEN "missing" ELSE "present")
  /\ nextNode' = nextNode + 1
  /\ UNCHANGED <<connections, now, nextConn>>
  /\ UNCHANGED clientVars

\* ---------------------------------------------------------- useChatStore
\* createNode followed by updateNodeStatus(id, 'running').
runningNode(N, id, t) == updateNodeStatusSet(createNodeSet(N, id, t), id, "running")

\* createNode followed by completeNode(id) without a result.
completedNode(N, id, t) ==
  completeNodeSet(createNodeSet(N, id, t), id, NoPayload, t)

\* The locals of a sendMessage call.
newSend(pc, chatNodeId, imageGenNodeId, apiNodeId, tool) ==
  [pc |-> pc, chatNodeId |-> chatNodeId, imageGenNodeId |-> imageGenNodeId,
   apiNodeId |-> apiNodeId, tool |-> tool]

\* sendMessage up to its first pending request, with the environment
\* variables loaded and no attachment.  isProcessing is set, the session is
\* ensured; without an API key the call throws, and the catch and finally
\* blocks end it.  With one the user-message node is created and completed;
\* for an image request the image-generation node is created, set running
\* and connected, and generateImage calls executeTool, which runs up to its
\* fetch; otherwise the api-request node is created, connected and set
\* running and the chat request is sent.
sendMessage(apiKey, isImageRequest) ==
  /\ Len(sends) < MaxSends
  /\ IF activeSessionId = Undefined
       THEN /\ sessions' = createSessionSet(sessions, nextSession, now)
            /\ activeSessionId' = nextSession
            /\ nextSession' = nextSession + 1
       ELSE UNCHANGED <<sessions, activeSessionId, nextSession>>
  /\ LET chatNodeId == nextNode
         withChat == completedNode(nodes, chatNodeId, now)
     IN IF ~apiKey
          THEN /\ isProcessing' = FALSE
               /\ sends' = Append(sends, newSend("returned", Undefined,
                                                 Undefined, Undefined, Undefined))
               /\ UNCHANGED <<nodes, connections, nextNode, nextConn,
                              traceSpans, listeners, calls, notified>>
          ELSE IF isImageRequest
            THEN LET imageGenNodeId == nextNode + 1
                     activityNodeId == nextNode + 2
                     requestId == Len(calls) + 1
                     span == newSpan(requestId, toISOString(now), activityNodeId)
                 IN /\ nodes' = runningNode(
                                   runningNode(withChat, imageGenNodeId, now),
                                   activityNodeId, now)
                    /\ connections' = connectNodesSet(connections, nextConn,
                                                     chatNodeId, imageGenNodeId)
                    /\ nextNode' = nextNode + 3
                    /\ nextConn' = nextConn + 1
                    /\ traceSpans' = MapSet(traceSpans, span)
                    /\ notified' = notifyListenersCalls(
                                      listeners, getTraceSpans(traceSpans'))
                    /\ listeners' = notifyListenersLeft(listeners)
                    /\ calls' = Append(calls, [pc |-> "fetch", span |-> span,
                                               response |-> NoResponse])
                    /\ isProcessing' = TRUE
                    /\ sends' = Append(sends, newSend("image", chatNodeId,
                                                      imageGenNodeId, Undefined,
                                                      requestId))
            ELSE LET apiNodeId == nextNode + 1
                 IN /\ nodes' = updateNodeStatusSet(
                                   createNodeSet(withChat, apiNodeId, now),
                                   apiNodeId, "running")
                    /\ connections' = connectNodesSet(connections, nextConn,
                                                     chatNodeId, apiNodeId)
                    /\ nextNode' = nextNode + 2
                    /\ nextConn' = nextConn + 1
                    /\ isProcessing' = TRUE
                    /\ sends' = Append(sends, newSend("chat", chatNodeId,
                                                      Undefined, apiNodeId,
                                                      Undefined))
                    /\ UNCHANGED <<traceSpans, listeners, calls, notified>>
  /\ last' = Called("sendMessage", Len(sends) + 1, NoPayload, "missing")
  /\ UNCHANGED <<now, nextListener, rendered>>

\* response.error?.message || 'Failed to generate image'
generateImageError(response) ==
  IF response.error.message # NoPayload
    THEN response.error.message ELSE "Failed to generate image"

\* sendMessage after generateImage has settled: executeTool has returned
\* `response`, and generateImage returns the images of a success response
\* (`images` tells whether the list has any) and throws for any other.  A
\* list with images completes the image-generation node, adds the reply
\* node and returns, resetting isProcessing; an empty list falls through to
\* the chat request; an exception fails the node and falls through too.
sendMessageImage(s, images) ==
  /\ s \in DOMAIN sends
  /\ sends[s].pc = "image"
  /\ calls[sends[s].tool].pc = "resolved"
  /\ LET response == calls[sends[s].tool].response
         imageGenNodeId == sends[s].imageGenNodeId
     IN IF response.status = "success" /\ images = "some"
          THEN LET replyNodeId == nextNode
               IN /\ nodes' = completedNode(
                                 completeNodeSet(nodes, imageGenNodeId,
                                                 "result", now),
                                 replyNodeId, now)
                  /\ connections' = connectNodesSet(connections, nextConn,
                                                   imageGenNodeId, replyNodeId)
                  /\ nextNode' = nextNode + 1
                  /\ nextConn' = nextConn + 1
                  /\ isProcessing' = FALSE
                  /\ sends' = [sends EXCEPT ![s].pc = "returned"]
          ELSE LET apiNodeId == nextNode
                   afterImage ==
                     IF response.status = "success"
                       THEN nodes
                       ELSE failNodeSet(nodes, imageGenNodeId,
                                        generateImageError(response), now)
               IN /\ nodes' = updateNodeStatusSet(
                                 createNodeSet(afterImage, apiNodeId, now),
                                 apiNodeId, "running")
                  /\ connections' = connectNodesSet(connections, nextConn,
                                                   sends[s].chatNodeId, apiNodeId)
                  /\ nextNode' = nextNode + 1
                  /\ nextConn' = nextConn + 1
                  /\ sends' = [sends EXCEPT ![s].pc = "chat",
                                            ![s].apiNodeId = apiNodeId]
                  /\ UNCHANGED isProcessing
  /\ last' = Called("sendMessageImage", s, images, "missing")
  /\ UNCHANGED <<sessions, activeSessionId, now, nextSession>>
  /\ UNCHANGED <<traceSpans, listeners, nextListener, calls, notified, rendered>>

\* What the chat request can do: answer ok with a message, answer not ok,
\* reject, or answer ok with a body response.json() cannot parse.
ChatOutcomes == {"ok", "notOk", "fetchThrows", "jsonThrows"}

\* sendMessage after the chat request has settled.  An ok response
\* completes the api-request node and adds the assistant's reply node; a
\* response that is not ok fails the node and throws; a rejected fetch and
\* an exception of response.json() go to the catch block, which touches no
\* node.  The finally block resets isProcessing.
sendMessageChat(s, outcome) ==
  /\ s \in DOMAIN sends
  /\ sends[s].pc = "chat"
  /\ LET apiNodeId == sends[s].apiNodeId
         responseNodeId == nextNode
     IN IF outcome = "ok"
          THEN /\ nodes' = completedNode(
                              completeNodeSet(nodes, apiNodeId, "result", now),
                              responseNodeId, now)
               /\ connections' = connectNodesSet(connections, nextConn,
                                                apiNodeId, responseNodeId)
               /\ nextNode' = nextNode + 1
               /\ nextConn' = nextConn + 1
          ELSE /\ nodes' = IF outcome = "notOk"
                             THEN failNodeSet(nodes, apiNodeId, "API error", now)
                             ELSE nodes
               /\ UNCHANGED <<connections, nextNode, nextConn>>
  /\ isProcessing' = FALSE
  /\ sends' = [sends EXCEPT ![s].pc = "returned"]
  /\ last' = Called("sendMessageChat", s, outcome, "missing")
  /\ UNCHANGED <<sessions, activeSessionId, now, nextSession>>
  /\ UNCHANGED <<traceSpans, listeners, nextListener, calls, notified, rendered>>

\* ------------------------------------------------------ specifications
\* Node lifecycle: a caller creates nodes and drives them with every
\* status, result and error argument, on ids present, removed and never
\* issued; clearAll removes them.  The store starts empty or as it is
\* after createSession() and connectNodes(0, 0) at time 0.
InitLifecycle ==
  /\ nodes = <<>>
  /\ now = 0
  /\ nextNode = 1
  /\ last = Called("init", Undefined, NoPayload, "missing")
  /\ ClientInit
  /\ \/ /\ connections = <<>>
        /\ sessions = <<>>
        /\ activeSessionId = Undefined
        /\ nextConn = 1
        /\ nextSession = 1
     \/ /\ connections = <<[sourceId |-> 0, targetId |-> 0]>>
        /\ sessions = <<[id |-> 1, startTime |-> 0, endTime |-> Undefined]>>
        /\ activeSessionId = 1
        /\ nextConn = 2
        /\ nextSession = 2

NextLifecycle ==
  \/ Tick
  \/ createNode
  \/ \E n \in NodeIdArgs, st \in ActivityNodeStatus : updateNodeStatus(n, st)
  \/ \E n \in NodeIdArgs, r \in ResultArgs : completeNode(n, r)
  \/ \E n \in NodeIdArgs, e \in ErrorArgs : failNode(n, e)
  \/ clearAll

SpecLifecycle == InitLifecycle /\ [][NextLifecycle]_vars

\* Sessions and clearing: a caller creates, ends, activates and clears
\* sessions, creates nodes, completes them (which stamps endTime) and
\* connects them.
NextClear ==
  \/ Tick
  \/ createSession
  \/ \E s \in SessionIdArgs : endSession(s)
  \/ \E s \in SessionIdArgs : setActiveSession(s)
  \/ createNode
  \/ \E n \in NodeIdArgs : completeNode(n, NoPayload)
  \/ \E a \in NodeIdArgs, b \in NodeIdArgs :
       nextConn <= MaxConns /\ connectNodes(a, b)
  \/ \E s \in SessionIdArgs : clearSession(s)
  \/ clearAll

SpecClear == Init /\ [][NextClear]_vars

\* The graph: nodes are created and completed inside and outside sessions
\* and connected, also twice and also to ids that are not nodes.
NextGraph ==
  \/ Tick
  \/ createSession
  \/ \E s \in SessionIdArgs : endSession(s)
  \/ createNode
  \/ \E n \in NodeIdArgs : completeNode(n, NoPayload)
  \/ \E a \in NodeIdArgs, b \in NodeIdArgs :
       nextConn <= MaxGraphConns /\ connectNodes(a, b)

SpecGraph == Init /\ [][NextGraph]_vars

\* Persistence: sessions are created and ended, nodes are created,
\* completed and connected, and the page is reloaded at any moment.
NextPersist ==
  \/ Tick
  \/ createSession
  \/ \E s \in SessionIdArgs : endSession(s)
  \/ createNode
  \/ \E n \in NodeIdArgs : completeNode(n, NoPayload)
  \/ \E a \in NodeIdArgs, b \in NodeIdArgs :
       nextConn <= MaxConns /\ connectNodes(a, b)
  \/ Reload

SpecPersist == Init /\ [][NextPersist]_vars

\* The client's calls: tools are executed (at most MaxNodes of them, each
\* creates a node), alone or while another call is in flight, with or
\* without a parent node; their fetches succeed or fail after any delay,
\* and the spans and the store are cleared at any moment.
NextTrace ==
  \/ Pass(MaxTraceTime)
  \/ \E p \in {Undefined} \cup NodeIdArgs :
       (p = Undefined \/ nextConn <= MaxConns) /\ executeTool(p)
  \/ \E r \in DOMAIN calls, status \in {"success", "error"} :
       \E serverStart \in getTime(calls[r].span.startTime)..now :
         \E serverEnd \in serverStart..now :
           executeToolTry(r, Body(status, serverStart, serverEnd))
  \/ \E r \in DOMAIN calls :
       \E serverStart \in getTime(calls[r].span.startTime)..now :
         \E serverEnd \in serverStart..now :
           executeToolTry(r, BodyWithoutError(serverStart, serverEnd))
  \/ \E r \in DOMAIN calls, raised \in Raised : executeToolCatch(r, raised)
  \/ clearTraceSpans
  \/ clearAll

SpecTrace == Init /\ [][NextTrace]_vars

\* The client's listeners: callbacks are added and unsubscribed, by their
\* owner or by a listener that is being called, while tools are executed
\* and the spans are cleared.
NextNotify ==
  \/ \E u \in {Undefined} \cup (1..MaxListeners), throws \in BOOLEAN :
       addListener(u, throws)
  \/ \E l \in 1..(nextListener - 1) : unsubscribe(l)
  \/ executeTool(Undefined)
  \/ \E r \in DOMAIN calls : executeToolTry(r, Body("success", now, now))
  \/ \E r \in DOMAIN calls : executeToolCatch(r, "Failed to fetch")
  \/ clearTraceSpans

SpecNotify == Init /\ [][NextNotify]_vars

\* The hook: a component renders and re-renders, with and without
\* autoCreateSession, and calls trackToolStart, also twice from one render;
\* the store is cleared and sessions are ended from elsewhere.
NextHook ==
  \/ Tick
  \/ \E autoCreateSession \in BOOLEAN : useMCPActivity(autoCreateSession)
  \/ trackToolStart
  \/ \E s \in SessionIdArgs : endSession(s)
  \/ clearAll

SpecHook == Init /\ [][NextHook]_vars

\* Sessions as the activity panel drives them: sessions are created, ended
\* and cleared, a session that exists is made the active one, everything
\* is cleared and the page is reloaded.
NextSessions ==
  \/ Tick
  \/ createSession
  \/ \E s \in SessionIdArgs : endSession(s)
  \/ \E s \in KeySet(sessions) : setActiveSession(s)
  \/ createNode
  \/ \E s \in SessionIdArgs : clearSession(s)
  \/ clearAll
  \/ Reload

SpecSessions == Init /\ [][NextSessions]_vars

\* The chat: messages are sent, also while an earlier one is being
\* answered, with and without an API key, asking for an image or not; the
\* image tool's request succeeds, with or without images, or fails, and the
\* chat request ends in each of its ways.
NextChat ==
  \/ \E apiKey \in BOOLEAN, isImageRequest \in BOOLEAN :
       sendMessage(apiKey, isImageRequest)
  \/ \E r \in DOMAIN calls : executeToolTry(r, Body("success", now, now))
  \/ \E r \in DOMAIN calls, raised \in Raised : executeToolCatch(r, raised)
  \/ \E s \in DOMAIN sends, images \in {"some", "none"} :
       sendMessageImage(s, images)
  \/ \E s \in DOMAIN sends, outcome \in ChatOutcomes :
       sendMessageChat(s, outcome)

SpecChat == Init /\ [][NextChat]_vars

\* =============================================================== claims
Terminal == {"completed", "error"}
NodeCalls == {"updateNodeStatus", "completeNode", "failNode"}
\* The nodes present before and after a step.
Kept == DOMAIN nodes \cap DOMAIN nodes'

\* C1 as stated: in every step, a node whose status changes moves
\* idle -> running, running -> completed or running -> error.
C1_StatusOrder ==
  [][\A n \in Kept :
       nodes'[n].status # nodes[n].status =>
         <<nodes[n].status, nodes'[n].status>> \in
           {<<"idle", "running">>, <<"running", "completed">>,
            <<"running", "error">>}]_vars

\* C1 as amended: the store enforces no order of statuses.  A node enters
\* the store idle, and the status of a node changes only in a call on that
\* node: updateNodeStatus sets the status passed, completeNode sets
\* completed, failNode sets error, whatever the status was before.
C1_StatusByCall ==
  [][/\ \A n \in DOMAIN nodes' \ DOMAIN nodes : nodes'[n].status = "idle"
     /\ \A n \in Kept :
          /\ nodes'[n].status # nodes[n].status =>
               /\ last'.id = n
               /\ last'.op \in NodeCalls
          /\ last'.id = n =>
               /\ last'.op = "updateNodeStatus" =>
                    nodes'[n].status = last'.arg
               /\ last'.op = "completeNode" => nodes'[n].status = "completed"
               /\ last'.op = "failNode" => nodes'[n].status = "error"]_vars

\* C1 witness: completeNode has moved a node from idle straight to
\* completed.
C1_Witness ==
  /\ last.op = "completeNode"
  /\ last.was = "idle"
  /\ last.id \in DOMAIN nodes
  /\ nodes[last.id].status = "completed"

\* C2 as stated: in every step, a node that is completed or error and is
\* not removed by the step keeps every field.
C2_TerminalImmutable ==
  [][\A n \in Kept :
       nodes[n].status \in Terminal => nodes'[n] = nodes[n]]_vars

\* C2 as amended: the store does not guard terminal nodes.  A completed or
\* error node that is not removed changes only in updateNodeStatus,
\* completeNode or failNode called on it, and each overwrites its own
\* fields again: updateNodeStatus the status only; completeNode status,
\* endTime and result, leaving error; failNode status, endTime and error,
\* leaving result.  startTime never changes.
C2_TerminalFrame ==
  [][\A n \in Kept :
       nodes[n].status \in Terminal =>
         /\ nodes'[n].startTime = nodes[n].startTime
         /\ nodes'[n] # nodes[n] =>
              /\ last'.id = n
              /\ last'.was = nodes[n].status
              /\ \/ /\ last'.op = "updateNodeStatus"
                    /\ nodes'[n] = [nodes[n] EXCEPT !.status = last'.arg]
                 \/ /\ last'.op = "completeNode"
                    /\ nodes'[n] = [nodes[n] EXCEPT !.status = "completed",
                                                    !.endTime = now,
                                                    !.result = last'.arg]
                 \/ /\ last'.op = "failNode"
                    /\ nodes'[n] = [nodes[n] EXCEPT !.status = "error",
                                                    !.endTime = now,
                                                    !.error = last'.arg]]_vars

\* C2 witness: failNode has been applied to a completed node that carried a
\* result: the node is now error, at a later endTime, and still has the
\* result.
C2_Witness ==
  /\ last.op = "failNode"
  /\ last.was = "completed"
  /\ last.id \in DOMAIN nodes
  /\ nodes[last.id].status = "error"
  /\ nodes[last.id].result # NoPayload
  /\ nodes[last.id].endTime > nodes[last.id].startTime

Populated(payload) == payload # NoPayload

\* C3 as stated: after completeNode or failNode on an existing node exactly
\* one of result and error is populated, and no node ever has both.
C3_ExactlyOne ==
  /\ (last.op \in {"completeNode", "failNode"} /\ last.was # "missing") =>
       Populated(nodes[last.id].result) # Populated(nodes[last.id].error)
  /\ \A n \in DOMAIN nodes :
       ~(Populated(nodes[n].result) /\ Populated(nodes[n].error))

\* C3 as amended: after failNode on an existing node its error is the
\* message passed; after completeNode its result is the value passed, which
\* is unset when the caller passes none, so a completed node may have
\* neither populated.  Neither call clears the other field: a node's result
\* changes only in completeNode on it and its error only in failNode on it,
\* so both are populated once a node has had completeNode with a result and
\* failNode, in either order.
C3_PayloadByCall ==
  [][/\ \A n \in DOMAIN nodes' \ DOMAIN nodes :
          ~Populated(nodes'[n].result) /\ ~Populated(nodes'[n].error)
     /\ \A n \in Kept :
          /\ nodes'[n].result # nodes[n].result =>
               last'.op = "completeNode" /\ last'.id = n
          /\ nodes'[n].error # nodes[n].error =>
               last'.op = "failNode" /\ last'.id = n
          /\ (last'.op = "completeNode" /\ last'.id = n) =>
               nodes'[n].result = last'.arg
          /\ (last'.op = "failNode" /\ last'.id = n) =>
               Populated(nodes'[n].error) /\ nodes'[n].error = last'.arg]_vars

\* C3 witness: completeNode with a result has been applied to a node that
\* carries an error: both are populated.
C3_Witness ==
  /\ last.op = "completeNode"
  /\ last.was = "error"
  /\ last.id \in DOMAIN nodes
  /\ Populated(nodes[last.id].result)
  /\ Populated(nodes[last.id].error)

\* C4: after completeNode on an existing node its status is completed,
\* after failNode on an existing node its status is error, and in both
\* cases endTime is set and endTime >= startTime.
C4_TerminalStamp ==
  (last.op \in {"completeNode", "failNode"} /\ last.was # "missing") =>
    /\ last.id \in DOMAIN nodes
    /\ nodes[last.id].status =
         (IF last.op = "completeNode" THEN "completed" ELSE "error")
    /\ nodes[last.id].endTime # Undefined
    /\ nodes[last.id].endTime >= nodes[last.id].startTime

\* C4 witness: failNode has been applied to a running node after the clock
\* moved.
C4_Witness ==
  /\ last.op = "failNode"
  /\ last.was = "running"
  /\ last.id \in DOMAIN nodes
  /\ nodes[last.id].status = "error"
  /\ nodes[last.id].endTime > nodes[last.id].startTime

\* C5: a node enters the store idle, with startTime set and endTime
\* undefined, and its endTime stays undefined until completeNode or
\* failNode is applied to it; updateNodeStatus never sets endTime.
C5_EndTimeUnsetUntilTerminal ==
  [][/\ \A n \in DOMAIN nodes' \ DOMAIN nodes :
          /\ nodes'[n].status = "idle"
          /\ nodes'[n].startTime # Undefined
          /\ nodes'[n].startTime = now
          /\ nodes'[n].endTime = Undefined
     /\ \A n \in Kept :
          (nodes[n].endTime = Undefined /\ nodes'[n].endTime # Undefined) =>
            /\ last'.op \in {"completeNode", "failNode"}
            /\ last'.id = n]_vars

\* C5 witness: updateNodeStatus has set a node to completed and its endTime
\* is still undefined.
C5_Witness ==
  /\ last.op = "updateNodeStatus"
  /\ last.arg = "completed"
  /\ last.id \in DOMAIN nodes
  /\ nodes[last.id].status = "completed"
  /\ nodes[last.id].endTime = Undefined

\* C6: updateNodeStatus, completeNode and failNode on an id that is not in
\* the store leave nodes, connections, sessions and activeSessionId as they
\* were, and create no node under that id.
C6_MissingNodeNoop ==
  [][(last'.op \in NodeCalls /\ last'.was = "missing") =>
       /\ nodes' = nodes
       /\ last'.id \notin DOMAIN nodes'
       /\ connections' = connections
       /\ sessions' = sessions
       /\ activeSessionId' = activeSessionId]_vars

\* C6 witness: failNode has been called on an id that is not in the store
\* while the store holds a node, a connection and an active session.
C6_Witness ==
  /\ last.op = "failNode"
  /\ last.was = "missing"
  /\ DOMAIN nodes # {}
  /\ DOMAIN connections # {}
  /\ activeSessionId \in KeySet(sessions)

StoreUnchanged ==
  /\ nodes' = nodes
  /\ connections' = connections
  /\ sessions' = sessions
  /\ activeSessionId' = activeSessionId

\* C7: clearSession(S) for an existing session S removes exactly the nodes
\* getSessionNodes(S) returns before the call, exactly the connections with
\* an end among them, and the session record S; every other node,
\* connection and session is left as it was.
C7_ClearSessionExact ==
  [][(last'.op = "clearSession" /\ last'.id \in KeySet(sessions)) =>
       LET S == last'.id
           removed == getSessionNodes(S)
           touching == {c \in DOMAIN connections :
                          \/ connections[c].sourceId \in removed
                          \/ connections[c].targetId \in removed}
       IN /\ DOMAIN nodes' = DOMAIN nodes \ removed
          /\ \A n \in DOMAIN nodes' : nodes'[n] = nodes[n]
          /\ DOMAIN connections' = DOMAIN connections \ touching
          /\ \A c \in DOMAIN connections' : connections'[c] = connections[c]
          /\ KeySet(sessions') = KeySet(sessions) \ {S}
          /\ \A k \in KeySet(sessions') :
               Lookup(sessions', k) = Lookup(sessions, k)]_vars

\* C7 witness: clearSession on an existing session has removed a node and
\* left another node, a connection and another session in the store.
C7_Witness ==
  /\ last.op = "clearSession"
  /\ last.was = "present"
  /\ last.removed # {}
  /\ DOMAIN nodes # {}
  /\ DOMAIN connections # {}
  /\ Len(sessions) > 0

\* C8: when clearSession(S) is called and S is the active session,
\* activeSessionId becomes the first key of the remaining sessions, or
\* undefined when none remain; when S is not the active session,
\* activeSessionId is unchanged.
C8_ClearSessionActive ==
  [][last'.op = "clearSession" =>
       IF activeSessionId = last'.id
         THEN activeSessionId' =
                (IF Len(sessions') = 0 THEN Undefined ELSE sessions'[1].id)
         ELSE activeSessionId' = activeSessionId]_vars

\* C8 witness: the active session has been cleared and the pointer now
\* names a remaining session.
C8_Witness ==
  /\ last.op = "clearSession"
  /\ last.was = "present"
  /\ last.arg = "active"
  /\ activeSessionId \in KeySet(sessions)

\* C9: clearSession on an id that is not a key of sessions changes none of
\* nodes, connections, sessions and activeSessionId, also when
\* activeSessionId is that same id.
C9_ClearMissingNoop ==
  [][(last'.op = "clearSession" /\ last'.id \notin KeySet(sessions)) =>
       StoreUnchanged]_vars

\* C10: after clearAll, nodes, connections and sessions are empty and
\* activeSessionId is undefined.
C10_ClearAllEmpties ==
  last.op = "clearAll" =>
    /\ DOMAIN nodes = {}
    /\ DOMAIN connections = {}
    /\ Len(sessions) = 0
    /\ activeSessionId = Undefined

\* C10 witness: clearAll has run on a store that held nodes, a connection,
\* a session and an active pointer.
C10_Witness ==
  /\ last.op = "clearAll"
  /\ last.was = "present"
  /\ last.removed # {}
  /\ nextConn > 1
  /\ nextSession > 1

\* The step is the call op: `last` names it and the clock, which only
\* moves between calls, stands still.
IsCall(op) == last'.op = op /\ now' = now

\* The instant a time value denotes, whether it is held as a Date or as an
\* ISO string.
Instant(x) == getTime(x)

\* C11: for every session S in the store, getSessionNodes(S) is exactly
\* the set of nodes n with n.startTime >= S.startTime and (S.endTime unset
\* or n.endTime unset or n.endTime <= S.endTime); for an id that is not in
\* the store it is empty.
C11_SessionNodes ==
  \A s \in SessionIdArgs :
    getSessionNodes(s) =
      IF s \notin KeySet(sessions)
        THEN {}
        ELSE {n \in DOMAIN nodes :
                /\ Instant(nodes[n].startTime) >=
                     Instant(Lookup(sessions, s).startTime)
                /\ \/ Lookup(sessions, s).endTime = Undefined
                   \/ nodes[n].endTime = Undefined
                   \/ Instant(nodes[n].endTime) <=
                        Instant(Lookup(sessions, s).endTime)}

\* C12: a reload yields exactly the sessions that had an endTime when the
\* store was last persisted, each with the same id, startTime and endTime;
\* a session without endTime does not appear.
C12_RoundTrip ==
  [][IsCall("reload") =>
       /\ KeySet(sessions') =
            {k \in KeySet(sessions) : Lookup(sessions, k).endTime # Undefined}
       /\ \A k \in KeySet(sessions') :
            /\ Lookup(sessions', k).startTime = Lookup(sessions, k).startTime
            /\ Lookup(sessions', k).endTime = Lookup(sessions, k).endTime]_vars

C15_CreateSessionFrame ==
  [][IsCall("createSession") =>
       /\ last'.id \notin KeySet(sessions)
       /\ KeySet(sessions') = KeySet(sessions) \cup {last'.id}
       /\ Len(sessions') = Len(sessions) + 1
       /\ Lookup(sessions', last'.id).endTime = Undefined
       /\ activeSessionId' = last'.id
       /\ \A k \in KeySet(sessions) :
            Lookup(sessions', k) = Lookup(sessions, k)
       /\ nodes' = nodes
       /\ connections' = connections]_vars

\* C15 witness: createSession has run while another session, not ended,
\* and a node were in the store; the older session is still not ended.
C15_Witness ==
  /\ last.op = "createSession"
  /\ activeSessionId = last.id
  /\ Len(sessions) > 1
  /\ sessions[1].id # last.id
  /\ sessions[1].endTime = Undefined
  /\ DOMAIN nodes # {}

\* C16: endSession on a session in the store sets that session's endTime
\* to the current time and changes no other field of it, no other session,
\* no node, no connection and not activeSessionId; endSession on an id
\* that is not in the store changes nothing.
C16_EndSessionFrame ==
  [][IsCall("endSession") =>
       IF last'.id \in KeySet(sessions)
         THEN /\ ObjectKeys(sessions') = ObjectKeys(sessions)
              /\ Lookup(sessions', last'.id) =
                   [Lookup(sessions, last'.id) EXCEPT !.endTime = now]
              /\ \A k \in KeySet(sessions) \ {last'.id} :
                   Lookup(sessions', k) = Lookup(sessions, k)
              /\ nodes' = nodes
              /\ connections' = connections
              /\ activeSessionId' = activeSessionId
         ELSE StoreUnchanged]_vars

\* C16 witness: the active session has been ended and is still the active
\* one, next to another session that is not ended and a node.
C16_Witness ==
  /\ last.op = "endSession"
  /\ last.was = "present"
  /\ activeSessionId = last.id
  /\ Lookup(sessions, last.id).endTime # Undefined
  /\ \E i \in 1..Len(sessions) : sessions[i].endTime = Undefined
  /\ DOMAIN nodes # {}

\* C17: connectNodes adds exactly one connection, under an id no
\* connection had, from the source to the target passed, whether or not
\* they are nodes and whether or not the pair is connected already; every
\* connection that was in the store stays as it was, and nodes and
\* sessions are unchanged.
C17_ConnectAlwaysAdds ==
  [][IsCall("connectNodes") =>
       /\ last'.id \notin DOMAIN connections
       /\ DOMAIN connections' = DOMAIN connections \cup {last'.id}
       /\ Cardinality(DOMAIN connections') =
            Cardinality(DOMAIN connections) + 1
       /\ \A c \in DOMAIN connections : connections'[c] = connections[c]
       /\ nodes' = nodes
       /\ sessions' = sessions]_vars

\* C17 witness: connectNodes has added a second connection for a pair that
\* was connected already, and its source is not a node.
C17_Witness ==
  /\ last.op = "connectNodes"
  /\ last.id \in DOMAIN connections
  /\ connections[last.id].sourceId \notin DOMAIN nodes
  /\ connections[last.id].targetId \in DOMAIN nodes
  /\ \E c \in DOMAIN connections \ {last.id} :
       connections[c] = connections[last.id]

\* C18: for every session id, getSessionConnections returns exactly the
\* connections whose source and target are both among the nodes
\* getSessionNodes returns for it: a connection between two of those nodes
\* is returned, a connection with an end that is a node outside the
\* session or no node at all is not.
C18_SessionConnections ==
  \A s \in SessionIdArgs :
    /\ getSessionConnections(s) \subseteq DOMAIN connections
    /\ \A c \in DOMAIN connections :
         c \in getSessionConnections(s) <=>
           {connections[c].sourceId, connections[c].targetId}
             \subseteq getSessionNodes(s)
    /\ \A c \in getSessionConnections(s) :
         {connections[c].sourceId, connections[c].targetId}
           \subseteq DOMAIN nodes
    /\ s \notin KeySet(sessions) => getSessionConnections(s) = {}

\* C18 witness: a session has two member nodes B and C; the connection
\* from B to C is returned for it and a connection from C to an id that is
\* no node is not.
C18_Witness ==
  \E s \in KeySet(sessions) :
    \E b \in getSessionNodes(s), c \in getSessionNodes(s) :
      /\ b # c
      /\ \E k \in getSessionConnections(s) :
           connections[k] = [sourceId |-> b, targetId |-> c]
      /\ \E k \in DOMAIN connections \ getSessionConnections(s) :
           /\ connections[k].sourceId = c
           /\ connections[k].targetId \notin DOMAIN nodes

\* C14: every span in the registry that is pending has duration 0 and
\* endTime equal to startTime, and every span that is success or error has
\* duration equal to endTime - startTime in milliseconds.
C14_SpanDuration ==
  \A i \in 1..Len(traceSpans) :
    LET span == traceSpans[i]
    IN /\ span.status = "pending" =>
            span.duration = 0 /\ span.endTime = span.startTime
       /\ span.status \in {"success", "error"} =>
            span.duration = getTime(span.endTime) - getTime(span.startTime)

\* The span registered under an id, for an id that is in the registry.
SpanOf(M, id) == M[CHOOSE i \in 1..Len(M) : M[i].id = id]

\* C20: when the fetch of an executeTool call rejects or its response is
\* not ok, the call returns (it does not reject) a response with status
\* error, code EXECUTION_ERROR and the raised error's message; its span is
\* in the registry with status error, that code and that message; and the
\* node the span names, if it is still in the store, is failed with that
\* message, while no node is created if it is not.
C20_FailureResolves ==
  [][IsCall("executeToolCatch") =>
       LET r == last'.id
           message == last'.arg
           failed == [message |-> message, code |-> "EXECUTION_ERROR"]
           n == calls[r].span.activityNodeId
       IN /\ calls[r].pc = "fetch"
          /\ calls'[r].pc = "resolved"
          /\ calls'[r].response = [status |-> "error", error |-> failed]
          /\ \E i \in 1..Len(traceSpans') : traceSpans'[i].id = r
          /\ SpanOf(traceSpans', r).status = "error"
          /\ SpanOf(traceSpans', r).error = failed
          /\ IF n \in DOMAIN nodes
               THEN /\ nodes'[n].status = "error"
                    /\ nodes'[n].error = message
                    /\ nodes'[n].endTime = now
               ELSE nodes' = nodes]_vars

\* C20 witness: the fetch of a call has failed while its node was running;
\* the call has returned, the node is failed with the raised message and
\* the span in the registry is error with the same message.
C20_Witness ==
  /\ last.op = "executeToolCatch"
  /\ last.was = "running"
  /\ calls[last.id].pc = "resolved"
  /\ calls[last.id].response.error.code = "EXECUTION_ERROR"
  /\ \E i \in 1..Len(traceSpans) :
       /\ traceSpans[i].id = last.id
       /\ traceSpans[i].status = "error"
       /\ traceSpans[i].error.message = last.arg
       /\ traceSpans[i].activityNodeId \in DOMAIN nodes
       /\ nodes[traceSpans[i].activityNodeId].status = "error"
       /\ nodes[traceSpans[i].activityNodeId].error = last.arg

\* The calls that change the span registry.
Mutations ==
  {"executeTool", "executeToolTry", "executeToolCatch", "clearTraceSpans"}
Mutated == \E op \in Mutations : IsCall(op)

SpanIds(M) == [i \in 1..Len(M) |-> M[i].id]
Callbacks(L) == {L[i].callback : i \in 1..Len(L)}

\* Listener i of the array L is still subscribed when its turn comes: no
\* listener called before it in the same notification has run its
\* unsubscribe function.
SubscribedAtTurn(L, i) ==
  \A k \in 1..(i - 1) : L[k].unsubscribes # L[i].callback

\* C19 as stated: every mutation of the registry calls every listener that
\* is subscribed, with the full list of spans then in the registry, and
\* calls no listener after its unsubscribe function has run.
C19_NotifySubscribed ==
  [][Mutated =>
       /\ \A i \in 1..Len(listeners) :
            SubscribedAtTurn(listeners, i) =>
              \E j \in 1..Len(notified') :
                notified'[j] = [listener |-> listeners[i].callback,
                                spans |-> traceSpans']
       /\ \A j \in 1..Len(notified') :
            \E i \in 1..Len(listeners) :
              /\ listeners[i].callback = notified'[j].listener
              /\ SubscribedAtTurn(listeners, i)]_vars

\* C19 as amended: every mutation of the registry calls, once and in
\* subscription order, every listener that was in the listener array when
\* the notification began, with the full list of spans then in the
\* registry, and no other call is made.  The list is in Map order: a new
\* span goes last, a span that is updated keeps its place, and a span set
\* again after a clear goes last.  An unsubscribe function removes its
\* callback from the array, and only addListener puts a callback in, so
\* no notification that begins after a listener's unsubscribe function has
\* run calls it; a listener unsubscribed by another listener during a
\* notification is still called in that notification.
C19_NotifySnapshot ==
  [][/\ Mutated =>
          notified' = [i \in 1..Len(listeners) |->
                         [listener |-> listeners[i].callback,
                          spans |-> traceSpans']]
     /\ ~Mutated => notified' = notified
     /\ IsCall("executeTool") =>
          SpanIds(traceSpans') = Append(SpanIds(traceSpans), last'.id)
     /\ (IsCall("executeToolTry") \/ IsCall("executeToolCatch")) =>
          SpanIds(traceSpans') =
            (IF \E i \in 1..Len(traceSpans) : traceSpans[i].id = last'.id
               THEN SpanIds(traceSpans)
               ELSE Append(SpanIds(traceSpans), last'.id))
     /\ IsCall("clearTraceSpans") => traceSpans' = <<>>
     /\ IsCall("unsubscribe") => last'.id \notin Callbacks(listeners')
     /\ Callbacks(listeners') \subseteq
          Callbacks(listeners) \cup
            (IF IsCall("addListener") THEN {nextListener} ELSE {})]_vars

\* C19 witness: the terminal update of a span has notified two listeners
\* with both spans of the registry, and the second of them had been
\* unsubscribed by the first in that same notification.
C19_Witness ==
  /\ last.op = "executeToolCatch"
  /\ Len(traceSpans) = 2
  /\ Len(notified) = 2
  /\ notified[1].spans = traceSpans
  /\ notified[2].spans = traceSpans
  /\ notified[1].listener \in Callbacks(listeners)
  /\ notified[2].listener \notin Callbacks(listeners)

\* C21: when a listener throws while it is notified, every listener in
\* the array is still called with the spans in that same notification, the
\* registry holds what the mutation put in it, and the call that notified
\* goes on: executeTool reaches its await and later returns.
C21_ListenerThrows ==
  [][(Mutated /\ \E i \in 1..Len(listeners) : listeners[i].throws) =>
       /\ \A i \in 1..Len(listeners) :
            /\ Len(notified') >= i
            /\ notified'[i] = [listener |-> listeners[i].callback,
                               spans |-> traceSpans']
       /\ IsCall("clearTraceSpans") => traceSpans' = <<>>
       /\ IsCall("executeTool") =>
            /\ calls'[last'.id].pc = "fetch"
            /\ traceSpans' = MapSet(traceSpans, calls'[last'.id].span)
       /\ (IsCall("executeToolTry") \/ IsCall("executeToolCatch")) =>
            /\ calls'[last'.id].pc = "resolved"
            /\ traceSpans' = MapSet(traceSpans, calls'[last'.id].span)]_vars

\* C21 witness: a call has returned after its terminal update notified two
\* listeners, the first of which throws; both were called with the spans.
C21_Witness ==
  /\ last.op = "executeToolTry"
  /\ calls[last.id].pc = "resolved"
  /\ Len(listeners) = 2
  /\ listeners[1].throws
  /\ ~listeners[2].throws
  /\ Len(notified) = 2
  /\ notified[1] = [listener |-> listeners[1].callback, spans |-> traceSpans]
  /\ notified[2] = [listener |-> listeners[2].callback, spans |-> traceSpans]
  /\ Len(traceSpans) > 0

\* The step in which an executeTool call returns, through its try block or
\* its catch block.
Returns == IsCall("executeToolTry") \/ IsCall("executeToolCatch")

InFlight == {r \in DOMAIN calls : calls[r].pc = "fetch"}

C25_ClearedStaysCleared ==
  [][Returns =>
       ((\A i \in 1..Len(traceSpans) : traceSpans[i].id # last'.id) =>
          \A i \in 1..Len(getTraceSpans(traceSpans')) :
            getTraceSpans(traceSpans')[i].id # last'.id)]_vars

\* C22: trackToolStart creates a session only if no session is active in
\* the store when it is called, and when it returns a session is active
\* and the id it returns is that of a node that exists and is running.
C22_TrackToolStart ==
  [][IsCall("trackToolStart") =>
       /\ KeySet(sessions') # KeySet(sessions) => activeSessionId = Undefined
       /\ activeSessionId' \in KeySet(sessions')
       /\ last'.id \in DOMAIN nodes'
       /\ nodes'[last'.id].status = "running"]_vars

\* C28: when setActiveSession is only called with the id of a session that
\* exists, activeSessionId is always undefined or the id of a session that
\* is in the store.
C28_ActiveIsPresent ==
  activeSessionId = Undefined \/ activeSessionId \in KeySet(sessions)

\* C28 witness: clearSession has removed the active session while another
\* session remained, and the pointer names a session that is present.
C28_Witness ==
  /\ last.op = "clearSession"
  /\ last.arg = "active"
  /\ last.was = "present"
  /\ activeSessionId # Undefined
  /\ activeSessionId \in KeySet(sessions)

\* C29: for a session that has been ended, every node getSessionNodes
\* returns started inside the session's window: not before the session
\* started and not after it ended.
C29_CreatedInWindow ==
  \A s \in KeySet(sessions) :
    Lookup(sessions, s).endTime # Undefined =>
      \A n \in getSessionNodes(s) :
        /\ Instant(Lookup(sessions, s).startTime) <= Instant(nodes[n].startTime)
        /\ Instant(nodes[n].startTime) <= Instant(Lookup(sessions, s).endTime)

\* The sendMessage calls that have not returned.
Sending == {s \in DOMAIN sends : sends[s].pc # "returned"}

\* C26: when a sendMessage call has returned, the image-generation node
\* and the api-request node it set running are completed or error.
C26_NoNodeLeftRunning ==
  \A s \in DOMAIN sends \ Sending :
    \A n \in {sends[s].imageGenNodeId, sends[s].apiNodeId} \cap DOMAIN nodes :
      nodes[n].status \in Terminal

\* C27: isProcessing is true exactly while at least one sendMessage call
\* is in flight.
C27_ProcessingWhileSending == isProcessing = (Sending # {})

====
